---- MODULE Spec2Model ----
(***************************************************************************)
(* Model of packages/relayer-lib/src/utils/cosmos.rs: the message builders *)
(* (target_events_to_timeout_msgs, src_events_to_recv_and_ack_msgs) and    *)
(* the proof injectors (inject_tendermint_proofs, inject_ethereum_proofs,  *)
(* inject_mock_proofs).                                                    *)
(*                                                                         *)
(* SpecBuild applies the two pure builders to bounded event lists.         *)
(* Spec runs one injector call over three message batches; its steps are   *)
(* the segments of the async fn between two await points.                  *)
(***************************************************************************)
EXTENDS Integers, Sequences, FiniteSets, TLC

VARIABLES
    \* ---- builder inputs and outputs
    events,            \* Vec<EurekaEventWithHeight> handed to the builders
    target_client_id,  \* &str
    target_height,     \* &Height given to the builders (provisional height)
    signer_address,    \* &str
    now,               \* u64
    built,             \* which builders have returned
    timeout_out,       \* Vec<MsgTimeout> returned by target_events_to_timeout_msgs
    recv_ack_out,      \* (Vec<MsgRecvPacket>, Vec<MsgAcknowledgement>) returned
    \* ---- one injector call
    injector,          \* which injector is called
    recv_msgs,         \* &mut [MsgRecvPacket]
    ack_msgs,          \* &mut [MsgAcknowledgement]
    timeout_msgs,      \* &mut [MsgTimeout]
    pre_msgs,          \* the three batches as handed to the call (history)
    inj_height,        \* target_height: &Height of inject_tendermint_proofs
    proof_slot,        \* proof_slot: u64 of inject_ethereum_proofs
    proof_block_number,\* the resolved execution block, NoBlock before
    chain,             \* the paths that hold a value in the proven snapshot
    pc,                \* the await the call is suspended at
    fut,               \* per batch group, the state of each message's future
    requests,          \* every request sent to an RPC endpoint so far
    result,            \* what the call returned
    beacon_chain,      \* the execution block number of the beacon block at proof_slot
    run,               \* 1 in the call, 2 in a second call on rebuilt batches
    first_slots        \* the proofs and heights the first call left, once it is over

build_vars == <<events, target_client_id, target_height, signer_address, now,
                built, timeout_out, recv_ack_out>>

inject_vars == <<injector, recv_msgs, ack_msgs, timeout_msgs, pre_msgs, inj_height,
                 proof_slot, proof_block_number, chain, pc, fut, requests, result,
                 beacon_chain, run, first_slots>>

vars == <<build_vars, inject_vars>>

\* ------------------------------------------------------------------ bounds

\* Longest event list handed to a builder.
MaxEvents == 2

\* ------------------------------------------------------------ input domains

Clients == {"client-0", "client-1"}

Timestamps == {100, 150}

Nows == {50, 100, 150}

Signers == {"cosmos1signer"}

AckLists == { << <<1>> >>, << <<2>>, <<1>> >> }

Heights == { [revision_number |-> 1, revision_height |-> 10],
             [revision_number |-> 1, revision_height |-> 20] }

\* alloy sol! struct IICS26RouterMsgs::Packet
SolPackets ==
    [sequence : {1}, sourceClient : Clients, destClient : Clients,
     timeoutTimestamp : Timestamps, payloads : {<<7>>}]

\* enum EurekaEvent
EurekaEvent ==
    [type : {"SendPacket"}, packet : SolPackets]
    \cup [type : {"WriteAcknowledgement"}, packet : SolPackets, acks : AckLists]

\* struct EurekaEventWithHeight
EurekaEventWithHeight == [event : EurekaEvent, height : {5}]

RECURSIVE SeqsUpTo(_, _)
SeqsUpTo(S, n) ==
    IF n = 0 THEN {<<>>}
    ELSE LET shorter == SeqsUpTo(S, n - 1)
         IN  shorter \cup {Append(s, x) : s \in {t \in shorter : Len(t) = n - 1}, x \in S}

\* the marker of a reached unreachable!() arm
Unreachable == [type |-> "unreachable"]

\* --------------------------------------------------------------- builders

\* Option<T>: Some(x) and None
Some(x) == <<x>>

None == <<>>

\* Option::unwrap of a Some
Unwrap(o) == o[1]

\* packet.into(): the sol Packet as the protobuf Packet, field by field.
PacketInto(packet) ==
    [sequence |-> packet.sequence,
     source_client |-> packet.sourceClient,
     destination_client |-> packet.destClient,
     timeout_timestamp |-> packet.timeoutTimestamp,
     payloads |-> packet.payloads]

\* acks.into_iter().map(Into::into).collect(): each Bytes as a Vec<u8>.
AcksInto(acks) ==
    [k \in 1..Len(acks) |-> [b \in 1..Len(acks[k]) |-> acks[k][b]]]

\* Iterator::filter_map(..).collect(): opts[k] is <<x>> (Some(x)) or <<>> (None)
RECURSIVE FilterMap(_)
FilterMap(opts) ==
    IF opts = <<>> THEN <<>> ELSE Head(opts) \o FilterMap(Tail(opts))

\* Iterator::filter(..).collect(): s[k] is kept when keep[k]
RECURSIVE Filter(_, _)
Filter(s, keep) ==
    IF s = <<>> THEN <<>>
    ELSE (IF Head(keep) THEN <<Head(s)>> ELSE <<>>) \o Filter(Tail(s), Tail(keep))

\* mutant: the timeout test is strict (now > timeoutTimestamp)
TimeoutClosure_Strict(e, cid, th, sg, t) ==
    IF e.event.type = "SendPacket"
       /\ t > e.event.packet.timeoutTimestamp /\ e.event.packet.sourceClient = cid
    THEN << [type |-> "MsgTimeout", packet |-> Some(PacketInto(e.event.packet)),
             proof_height |-> th, proof_unreceived |-> <<>>, signer |-> sg] >>
    ELSE <<>>

\* the filter_map closure of target_events_to_timeout_msgs
TimeoutClosure(e, cid, th, sg, t) ==
    IF e.event.type = "SendPacket"
    THEN IF t >= e.event.packet.timeoutTimestamp /\ e.event.packet.sourceClient = cid
         THEN << [type |-> "MsgTimeout",
                  packet |-> Some(PacketInto(e.event.packet)),
                  proof_height |-> th,
                  proof_unreceived |-> <<>>,
                  signer |-> sg] >>
         ELSE <<>>
    ELSE <<>>

target_events_to_timeout_msgs(evs, cid, th, sg, t) ==
    FilterMap([k \in 1..Len(evs) |-> TimeoutClosure(evs[k], cid, th, sg, t)])

\* mutant: SendPacket events are matched on their source client
SrcFilter_SourceClient(e, cid, t) ==
    IF e.event.type = "SendPacket"
    THEN e.event.packet.timeoutTimestamp > t /\ e.event.packet.sourceClient = cid
    ELSE e.event.packet.sourceClient = cid

\* mutant: a packet is still received at now = timeoutTimestamp
SrcFilter_NotStrict(e, cid, t) ==
    IF e.event.type = "SendPacket"
    THEN e.event.packet.timeoutTimestamp >= t /\ e.event.packet.destClient = cid
    ELSE e.event.packet.sourceClient = cid

\* the filter closure of src_events_to_recv_and_ack_msgs
SrcFilter(e, cid, t) ==
    IF e.event.type = "SendPacket"
    THEN e.event.packet.timeoutTimestamp > t /\ e.event.packet.destClient = cid
    ELSE e.event.packet.sourceClient = cid

\* mutant: the partition test disagrees with the filter: every kept event counts
\* as a SendPacket
SrcPartition_AllSend(e) == TRUE

\* the partition closure of src_events_to_recv_and_ack_msgs
SrcPartition(e) ==
    IF e.event.type = "SendPacket" THEN TRUE ELSE FALSE

\* mutant: the recv message is built without its packet
RecvClosure_NoPacket(e, th, sg) ==
    IF e.event.type = "SendPacket"
    THEN [type |-> "MsgRecvPacket",
          packet |-> None,
          proof_height |-> th,
          proof_commitment |-> <<>>,
          signer |-> sg]
    ELSE Unreachable

\* the map closure building recv_msgs
RecvClosure(e, th, sg) ==
    IF e.event.type = "SendPacket"
    THEN [type |-> "MsgRecvPacket",
          packet |-> Some(PacketInto(e.event.packet)),
          proof_height |-> th,
          proof_commitment |-> <<>>,
          signer |-> sg]
    ELSE Unreachable

\* mutant: only the first acknowledgement is carried
AckClosure_FirstOnly(e, th, sg) ==
    IF e.event.type = "WriteAcknowledgement"
    THEN [type |-> "MsgAcknowledgement",
          packet |-> Some(PacketInto(e.event.packet)),
          acknowledgement |-> [app_acknowledgements |-> AcksInto(SubSeq(e.event.acks, 1, 1))],
          proof_height |-> th,
          proof_acked |-> <<>>,
          signer |-> sg]
    ELSE Unreachable

\* the map closure building ack_msgs
AckClosure(e, th, sg) ==
    IF e.event.type = "WriteAcknowledgement"
    THEN [type |-> "MsgAcknowledgement",
          packet |-> Some(PacketInto(e.event.packet)),
          acknowledgement |-> [app_acknowledgements |-> AcksInto(e.event.acks)],
          proof_height |-> th,
          proof_acked |-> <<>>,
          signer |-> sg]
    ELSE Unreachable

src_events_to_recv_and_ack_msgs(evs, cid, th, sg, t) ==
    LET kept == Filter(evs, [k \in 1..Len(evs) |-> SrcFilter(evs[k], cid, t)])
        src_send_events == Filter(kept, [k \in 1..Len(kept) |-> SrcPartition(kept[k])])
        src_ack_events == Filter(kept, [k \in 1..Len(kept) |-> ~SrcPartition(kept[k])])
    IN  [recv_msgs |-> [k \in 1..Len(src_send_events) |->
                           RecvClosure(src_send_events[k], th, sg)],
         ack_msgs |-> [k \in 1..Len(src_ack_events) |->
                          AckClosure(src_ack_events[k], th, sg)]]

\* ------------------------------------------------------- builder behaviour

NoBlock == [resolved |-> FALSE, number |-> 0]

\* no injector call: the state of the injector variables under SpecBuild
IdleInjector ==
    /\ injector = "none"
    /\ recv_msgs = <<>> /\ ack_msgs = <<>> /\ timeout_msgs = <<>>
    /\ pre_msgs = [recv |-> <<>>, ack |-> <<>>, timeout |-> <<>>]
    /\ inj_height = [revision_number |-> 0, revision_height |-> 0]
    /\ proof_slot = 0
    /\ proof_block_number = NoBlock
    /\ chain = {}
    /\ pc = "idle"
    /\ fut = [recv |-> <<>>, ack |-> <<>>, timeout |-> <<>>]
    /\ requests = <<>>
    /\ result = "none"
    /\ beacon_chain = 0
    /\ run = 1
    /\ first_slots = [recv |-> <<>>, ack |-> <<>>, timeout |-> <<>>]

InitBuild ==
    /\ events \in SeqsUpTo(EurekaEventWithHeight, MaxEvents)
    /\ target_client_id \in Clients
    /\ target_height \in Heights
    /\ signer_address \in Signers
    /\ now \in Nows
    /\ built = {}
    /\ timeout_out = <<>>
    /\ recv_ack_out = [recv_msgs |-> <<>>, ack_msgs |-> <<>>]
    /\ IdleInjector

BuildTimeoutMessages ==
    /\ "timeout" \notin built
    /\ built' = built \cup {"timeout"}
    /\ timeout_out' = target_events_to_timeout_msgs(
                          events, target_client_id, target_height, signer_address, now)
    /\ UNCHANGED <<events, target_client_id, target_height, signer_address, now,
                   recv_ack_out>>
    /\ UNCHANGED inject_vars

BuildRecvAndAckMessages ==
    /\ "recv_ack" \notin built
    /\ built' = built \cup {"recv_ack"}
    /\ recv_ack_out' = src_events_to_recv_and_ack_msgs(
                          events, target_client_id, target_height, signer_address, now)
    /\ UNCHANGED <<events, target_client_id, target_height, signer_address, now,
                   timeout_out>>
    /\ UNCHANGED inject_vars

NextBuild ==
    \/ BuildTimeoutMessages
    \/ BuildRecvAndAckMessages

SpecBuild == InitBuild /\ [][NextBuild]_vars

\* ------------------------------------------------------------- injectors

\* Largest number of messages in one batch.
MaxBatch == 2

GroupSet == {"recv", "ack", "timeout"}

Injectors == {"tendermint", "ethereum", "mock"}

\* beacon slots asked for, and execution block numbers a slot may resolve to
Slots == {1000}

BlockNumbers == {500, 1000}

\* the three error strings an injector call can return, and an abnormal abort
ERR_MEMBERSHIP == "Membership value is empty"

ERR_NON_MEMBERSHIP == "Non-Membership value is empty"

ERR_UPSTREAM == "upstream error"

PANIC == "panic"

Batch(g) ==
    IF g = "recv" THEN recv_msgs ELSE IF g = "ack" THEN ack_msgs ELSE timeout_msgs

\* msg.packet.clone().unwrap().into(): the protobuf Packet as the sol Packet
ProtoInto(packet) ==
    [sequence |-> packet.sequence,
     sourceClient |-> packet.source_client,
     destClient |-> packet.destination_client,
     timeoutTimestamp |-> packet.timeout_timestamp,
     payloads |-> packet.payloads]

\* Path Deriver: the canonical path of a packet in a lifecycle role
PathDeriver(packet, role) ==
    <<role, packet.sourceClient, packet.destClient, packet.sequence>>

commitment_path(packet) == PathDeriver(packet, "commitment")

ack_commitment_path(packet) == PathDeriver(packet, "acknowledgement")

receipt_commitment_path(packet) == PathDeriver(packet, "receipt")

\* the path each closure derives for its message
PathOf(g, msg) ==
    LET packet == ProtoInto(Unwrap(msg.packet))
    IN  IF g = "recv" THEN commitment_path(packet)
        ELSE IF g = "ack" THEN ack_commitment_path(packet)
        ELSE receipt_commitment_path(packet)

\* the first message of a batch without a packet, on which unwrap() panics; one
\* more than the length of the batch when every message has its packet
FirstNone(msgs) ==
    LET bad == {k \in 1..Len(msgs) : msgs[k].packet = None}
    IN  IF bad = {} THEN Len(msgs) + 1 ELSE CHOOSE k \in bad : \A j \in bad : k <= j

\* ---- Tendermint

\* mutant: the ack closure asks for the commitment path
TmPathOf_AckAsCommitment(g, msg) ==
    LET packet == ProtoInto(Unwrap(msg.packet))
    IN  IF g \in {"recv", "ack"} THEN commitment_path(packet)
        ELSE receipt_commitment_path(packet)

\* the path each closure of inject_tendermint_proofs derives from its message
TmPathOf(g, msg) ==
    LET packet == ProtoInto(Unwrap(msg.packet))
    IN  IF g = "recv" THEN commitment_path(packet)
        ELSE IF g = "ack" THEN ack_commitment_path(packet)
        ELSE receipt_commitment_path(packet)

\* the arguments of source_tm_client.prove_path
TmRequest(g, msg, th) ==
    [client |-> "tendermint",
     segments |-> <<"ibc", TmPathOf(g, msg)>>,
     height |-> th.revision_height]

\* TendermintRpcExt::prove_path: an error, or the (value, proof) of the path in
\* the snapshot; an empty value denotes non-membership
prove_path(req) ==
    { [kind |-> "err"],
      [kind |-> "ok",
       value |-> IF req.segments[2] \in chain THEN <<1>> ELSE <<>>,
       proof |-> [key_path |-> req.segments, at |-> req.height,
                  exist |-> req.segments[2] \in chain]] }

\* Protobuf::encode_vec
encode_vec(proof) == <<"protobuf", proof>>

\* mutant: a timeout message is refused when the value is empty
TmCheck_TimeoutInverted(g, value) ==
    IF value = <<>> THEN ERR_MEMBERSHIP ELSE "ok"

\* the value test of the three closures of inject_tendermint_proofs
TmCheck(g, value) ==
    IF g \in {"recv", "ack"}
    THEN IF value = <<>> THEN ERR_MEMBERSHIP ELSE "ok"
    ELSE IF value # <<>> THEN ERR_NON_MEMBERSHIP ELSE "ok"

\* mutant: the proof is stored and the provisional height kept
TmWrite_KeepHeight(g, msg, proof, th) ==
    IF g = "recv" THEN [msg EXCEPT !.proof_commitment = encode_vec(proof)]
    ELSE IF g = "ack" THEN [msg EXCEPT !.proof_acked = encode_vec(proof)]
    ELSE [msg EXCEPT !.proof_unreceived = encode_vec(proof)]

\* mutant: the height is stored and the proof bytes left as they were
TmWrite_HeightOnly(g, msg, proof, th) ==
    [msg EXCEPT !.proof_height = th]

\* the two assignments that end each closure of inject_tendermint_proofs
TmWrite(g, msg, proof, th) ==
    IF g = "recv"
    THEN [msg EXCEPT !.proof_commitment = encode_vec(proof), !.proof_height = th]
    ELSE IF g = "ack"
    THEN [msg EXCEPT !.proof_acked = encode_vec(proof), !.proof_height = th]
    ELSE [msg EXCEPT !.proof_unreceived = encode_vec(proof), !.proof_height = th]

\* ---- Ethereum

ibc_contrct_address == "0xibc"

ibc_contract_slot == 3

HexDigits ==
    <<"0", "1", "2", "3", "4", "5", "6", "7", "8", "9", "a", "b", "c", "d", "e", "f">>

\* format!("{n:x}")
RECURSIVE LowerHex(_)
LowerHex(n) ==
    IF n < 16 THEN <<HexDigits[n + 1]>>
    ELSE LowerHex(n \div 16) \o <<HexDigits[(n % 16) + 1]>>

\* format!("{n:?}") of a u64
RECURSIVE Decimal(_)
Decimal(n) ==
    IF n < 10 THEN <<HexDigits[n + 1]>>
    ELSE Decimal(n \div 10) \o <<HexDigits[(n % 10) + 1]>>

\* the argument of beacon_api_client.beacon_block
BeaconRequest(slot) == [client |-> "beacon", block_id |-> Decimal(slot)]

\* BeaconApiClient::beacon_block: an error, or a block with an execution payload
beacon_block(req) ==
    { [kind |-> "err"],
      [kind |-> "ok",
       message |-> [body |-> [execution_payload |-> [block_number |-> beacon_chain]]]] }

\* evm_ics26_commitment_path: the storage key hashed from the path and the slot
evm_ics26_commitment_path(path, slot) == [keccak256 |-> <<path, slot>>]

\* the path each closure of inject_ethereum_proofs derives from its message
EthPathOf(g, msg) ==
    LET packet == ProtoInto(Unwrap(msg.packet))
    IN  IF g = "recv" THEN commitment_path(packet)
        ELSE IF g = "ack" THEN ack_commitment_path(packet)
        ELSE receipt_commitment_path(packet)

\* the arguments get_commitment_proof gives eth_client.get_proof
EthRequest(g, msg, block_number) ==
    LET storage_key == evm_ics26_commitment_path(EthPathOf(g, msg), ibc_contract_slot)
        storage_key_hex == <<"hex", storage_key>>
        block_hex == <<"0", "x">> \o LowerHex(block_number)
    IN  [client |-> "ethereum",
         address |-> ibc_contrct_address,
         keys |-> <<storage_key_hex>>,
         block |-> block_hex]

\* EthApiClient::get_proof: an error, or an account proof whose storage-proof list
\* has one entry for the key asked for, or none
get_proof(req) ==
    LET key == req.keys[1][2]
        path == key.keccak256[1]
    IN  { [kind |-> "err"],
          [kind |-> "ok", storage_proof |-> <<>>],
          [kind |-> "ok",
           storage_proof |-> << [key |-> key,
                                 value |-> IF path \in chain THEN 1 ELSE 0,
                                 proof |-> <<"node", key, req.block>>] >>] }

\* the StorageProof get_commitment_proof returns from a non-empty answer
get_commitment_proof(answer) ==
    LET storage_proof == answer.storage_proof[1]
    IN  [key |-> storage_proof.key,
         value |-> storage_proof.value,
         proof |-> storage_proof.proof]

\* serde_json::to_vec
to_vec(storage_proof) == <<"json", storage_proof>>

\* the value test of the three closures of inject_ethereum_proofs
EthCheck(g, value) ==
    IF g \in {"recv", "ack"}
    THEN IF value = 0 THEN ERR_MEMBERSHIP ELSE "ok"
    ELSE IF value # 0 THEN ERR_NON_MEMBERSHIP ELSE "ok"

\* mutant: the height recorded is the resolved execution block
proof_slot_height_AtBlock ==
    [revision_number |-> 0, revision_height |-> proof_block_number.number]

proof_slot_height ==
    [revision_number |-> 0, revision_height |-> proof_slot]

\* mutant: the closure also puts its own name in the signer of the message
EthWrite_Signer(g, msg, storage_proof, h) ==
    IF g = "recv"
    THEN [msg EXCEPT !.proof_commitment = to_vec(storage_proof), !.proof_height = h,
                     !.signer = "relayer"]
    ELSE IF g = "ack"
    THEN [msg EXCEPT !.proof_acked = to_vec(storage_proof), !.proof_height = h,
                     !.signer = "relayer"]
    ELSE [msg EXCEPT !.proof_unreceived = to_vec(storage_proof), !.proof_height = h,
                     !.signer = "relayer"]

\* the two assignments that end each closure of inject_ethereum_proofs
EthWrite(g, msg, storage_proof, h) ==
    IF g = "recv"
    THEN [msg EXCEPT !.proof_commitment = to_vec(storage_proof), !.proof_height = h]
    ELSE IF g = "ack"
    THEN [msg EXCEPT !.proof_acked = to_vec(storage_proof), !.proof_height = h]
    ELSE [msg EXCEPT !.proof_unreceived = to_vec(storage_proof), !.proof_height = h]

\* ---- the join of the futures

NoResp == [kind |-> "none"]

Unpolled(n) == [k \in 1..n |-> [st |-> "unpolled", resp |-> NoResp]]

\* the first batch group after stage s that has a message: try_join_all of no
\* future is ready at once
NextStage(s) ==
    LET after == IF s = "start" THEN <<"recv", "ack", "timeout">>
                 ELSE IF s = "recv" THEN <<"ack", "timeout">>
                 ELSE IF s = "ack" THEN <<"timeout">>
                 ELSE <<>>
        full == SelectSeq(after, LAMBDA g : Len(Batch(g)) > 0)
    IN  IF full = <<>> THEN "returned" ELSE Head(full)

\* mutant: the futures of the three groups are all polled by the first await
Polled_AllGroups(g) == GroupSet

\* the groups whose futures are made and polled when the call awaits group g
Polled(g) == {g}

\* the request future k of group g sends
Request(g, k, block) ==
    IF injector = "tendermint" THEN TmRequest(g, Batch(g)[k], inj_height)
    ELSE EthRequest(g, Batch(g)[k], block.number)

\* the futures of group h that are polled when the groups G are awaited: those
\* not polled yet, up to the first one whose message has no packet
PolledNow(f, G, h) ==
    IF h \in G
    THEN {k \in 1..Len(f[h]) : f[h][k].st = "unpolled" /\ k < FirstNone(Batch(h))}
    ELSE {}

\* the requests sent, in polling order, when the unpolled futures of groups G are
\* polled for the first time
Issued(f, G, b) ==
    LET of(h) == LET ks == SelectSeq([k \in 1..Len(f[h]) |-> k],
                                     LAMBDA k : k \in PolledNow(f, G, h))
                 IN  [j \in 1..Len(ks) |-> [by |-> <<h, ks[j]>>,
                                           req |-> Request(h, ks[j], b)]]
    IN  of("recv") \o of("ack") \o of("timeout")

\* the call goes on after stage s, futures f, resolved block b: it awaits the next
\* group, whose futures are polled and send their requests, or returns Ok; the
\* poll of a future whose message has no packet panics in unwrap()
Proceed(s, f, b) ==
    LET n == NextStage(s)
        panics == \E h \in Polled(n) : FirstNone(Batch(h)) <= Len(Batch(h))
    IN  IF n = "returned"
        THEN /\ pc' = "returned"
             /\ result' = "Ok"
             /\ fut' = f
             /\ requests' = requests
        ELSE /\ pc' = IF panics THEN "returned" ELSE n
             /\ result' = IF panics THEN PANIC ELSE result
             /\ fut' = [h \in GroupSet |->
                          [k \in 1..Len(f[h]) |->
                             IF k \in PolledNow(f, Polled(n), h)
                             THEN [st |-> IF panics THEN "dropped" ELSE "pending",
                                   resp |-> NoResp]
                             ELSE f[h][k]]]
             /\ requests' = requests \o Issued(f, Polled(n), b)

\* mutant: the closure stores the height before it tests the value
Fail_HeightStoredFirst(g, i, r, err) ==
    LET h == IF injector = "tendermint" THEN inj_height ELSE proof_slot_height
        w(m) == IF r.kind = "ok" /\ err # PANIC THEN [m EXCEPT !.proof_height = h] ELSE m
    IN  /\ pc' = "returned"
        /\ result' = err
        /\ fut' = [h2 \in GroupSet |->
                     [k \in 1..Len(fut[h2]) |->
                        IF h2 = g /\ k = i THEN [st |-> "failed", resp |-> r]
                        ELSE IF fut[h2][k].st = "pending"
                        THEN [st |-> "dropped", resp |-> NoResp]
                        ELSE fut[h2][k]]]
        /\ recv_msgs' = IF g = "recv" THEN [recv_msgs EXCEPT ![i] = w(@)] ELSE recv_msgs
        /\ ack_msgs' = IF g = "ack" THEN [ack_msgs EXCEPT ![i] = w(@)] ELSE ack_msgs
        /\ timeout_msgs' = IF g = "timeout" THEN [timeout_msgs EXCEPT ![i] = w(@)]
                           ELSE timeout_msgs
        /\ UNCHANGED <<requests, proof_block_number>>

\* the call returns err: the join drops the futures still pending
Fail(g, i, r, err) ==
    /\ pc' = "returned"
    /\ result' = err
    /\ fut' = [h \in GroupSet |->
                 [k \in 1..Len(fut[h]) |->
                    IF h = g /\ k = i THEN [st |-> "failed", resp |-> r]
                    ELSE IF fut[h][k].st = "pending" THEN [st |-> "dropped", resp |-> NoResp]
                    ELSE fut[h][k]]]
    /\ UNCHANGED <<recv_msgs, ack_msgs, timeout_msgs, requests, proof_block_number>>

\* mutant: the proof and height are stored in the message at the position of the
\* completion, not in the future's own message
Succeed_CompletionOrder(g, i, r, m) ==
    LET j == 1 + Cardinality({k \in 1..Len(fut[g]) : fut[g][k].st = "done"})
    IN  /\ recv_msgs' = IF g = "recv"
                        THEN [recv_msgs EXCEPT ![j].proof_commitment = m.proof_commitment,
                                               ![j].proof_height = m.proof_height]
                        ELSE recv_msgs
        /\ ack_msgs' = IF g = "ack"
                       THEN [ack_msgs EXCEPT ![j].proof_acked = m.proof_acked,
                                             ![j].proof_height = m.proof_height]
                       ELSE ack_msgs
        /\ timeout_msgs' = IF g = "timeout"
                           THEN [timeout_msgs EXCEPT ![j].proof_unreceived = m.proof_unreceived,
                                                     ![j].proof_height = m.proof_height]
                           ELSE timeout_msgs
        /\ UNCHANGED proof_block_number
        /\ LET f == [fut EXCEPT ![g][i] = [st |-> "done", resp |-> r]]
           IN  IF \A k \in 1..Len(f[g]) : f[g][k].st = "done"
               THEN Proceed(g, f, proof_block_number)
               ELSE fut' = f /\ UNCHANGED <<pc, result, requests>>

\* future i of group g stores m in its message and is done; the join is ready
\* once every future of the group is done
Succeed(g, i, r, m) ==
    /\ recv_msgs' = IF g = "recv" THEN [recv_msgs EXCEPT ![i] = m] ELSE recv_msgs
    /\ ack_msgs' = IF g = "ack" THEN [ack_msgs EXCEPT ![i] = m] ELSE ack_msgs
    /\ timeout_msgs' = IF g = "timeout" THEN [timeout_msgs EXCEPT ![i] = m] ELSE timeout_msgs
    /\ UNCHANGED proof_block_number
    /\ LET f == [fut EXCEPT ![g][i] = [st |-> "done", resp |-> r]]
       IN  IF \A k \in 1..Len(f[g]) : f[g][k].st = "done"
           THEN Proceed(g, f, proof_block_number)
           ELSE fut' = f /\ UNCHANGED <<pc, result, requests>>

static_vars == <<injector, pre_msgs, inj_height, proof_slot, chain, beacon_chain,
                 run, first_slots>>

\* inject_tendermint_proofs is called and awaits its first join
CallTendermint ==
    /\ pc = "start" /\ injector = "tendermint"
    /\ Proceed("start", fut, proof_block_number)
    /\ UNCHANGED <<recv_msgs, ack_msgs, timeout_msgs, proof_block_number>>
    /\ UNCHANGED <<build_vars, static_vars>>

\* the answer of prove_path reaches the closure of message i of group g
TmFetchReturns(g, i) ==
    /\ injector = "tendermint"
    /\ i \in 1..Len(fut[g]) /\ fut[g][i].st = "pending"
    /\ \E r \in prove_path(TmRequest(g, Batch(g)[i], inj_height)) :
          IF r.kind = "err" THEN Fail(g, i, r, ERR_UPSTREAM)
          ELSE IF TmCheck(g, r.value) # "ok" THEN Fail(g, i, r, TmCheck(g, r.value))
          ELSE Succeed(g, i, r, TmWrite(g, Batch(g)[i], r.proof, inj_height))
    /\ UNCHANGED <<build_vars, static_vars>>

\* inject_ethereum_proofs is called and awaits the beacon block
CallEthereum ==
    /\ pc = "start" /\ injector = "ethereum"
    /\ pc' = "beacon"
    /\ requests' = Append(requests, [by |-> <<"beacon", 0>>, req |-> BeaconRequest(proof_slot)])
    /\ UNCHANGED <<recv_msgs, ack_msgs, timeout_msgs, proof_block_number, fut, result>>
    /\ UNCHANGED <<build_vars, static_vars>>

\* mutant: an error of the beacon block lookup is not propagated
BeaconReturns_IgnoreError ==
    /\ pc = "beacon"
    /\ \E r \in beacon_block(BeaconRequest(proof_slot)) :
          IF r.kind = "err"
          THEN /\ UNCHANGED proof_block_number
               /\ Proceed("start", fut, proof_block_number)
          ELSE LET b == [resolved |-> TRUE,
                         number |-> r.message.body.execution_payload.block_number]
               IN  /\ proof_block_number' = b
                   /\ Proceed("start", fut, b)
    /\ UNCHANGED <<recv_msgs, ack_msgs, timeout_msgs>>
    /\ UNCHANGED <<build_vars, static_vars>>

\* the beacon block answer arrives: the error is returned, or the block number is
\* kept and the first join awaited
BeaconReturns ==
    /\ pc = "beacon"
    /\ \E r \in beacon_block(BeaconRequest(proof_slot)) :
          IF r.kind = "err"
          THEN /\ pc' = "returned"
               /\ result' = ERR_UPSTREAM
               /\ UNCHANGED <<proof_block_number, fut, requests>>
          ELSE LET b == [resolved |-> TRUE,
                         number |-> r.message.body.execution_payload.block_number]
               IN  /\ proof_block_number' = b
                   /\ Proceed("start", fut, b)
    /\ UNCHANGED <<recv_msgs, ack_msgs, timeout_msgs>>
    /\ UNCHANGED <<build_vars, static_vars>>

\* the answer of get_proof reaches get_commitment_proof for message i of group g
EthFetchReturns(g, i) ==
    /\ injector = "ethereum"
    /\ i \in 1..Len(fut[g]) /\ fut[g][i].st = "pending"
    /\ \E r \in get_proof(EthRequest(g, Batch(g)[i], proof_block_number.number)) :
          IF r.kind = "err" THEN Fail(g, i, r, ERR_UPSTREAM)
          ELSE IF r.storage_proof = <<>> THEN Fail(g, i, r, PANIC)
          ELSE LET storage_proof == get_commitment_proof(r)
               IN  IF EthCheck(g, storage_proof.value) # "ok"
                   THEN Fail(g, i, r, EthCheck(g, storage_proof.value))
                   ELSE Succeed(g, i, r,
                                EthWrite(g, Batch(g)[i], storage_proof, proof_slot_height))
    /\ UNCHANGED <<build_vars, static_vars>>

\* b"mock".to_vec()
MockProof == <<"m", "o", "c", "k">>

\* Height::default()
DefaultHeight == [revision_number |-> 0, revision_height |-> 0]

\* mutant: the proof height of the timeout messages is not set
inject_mock_proofs_TimeoutHeight ==
    /\ pc = "start" /\ injector = "mock"
    /\ recv_msgs' = [k \in 1..Len(recv_msgs) |->
                       [recv_msgs[k] EXCEPT !.proof_commitment = MockProof,
                                            !.proof_height = DefaultHeight]]
    /\ ack_msgs' = [k \in 1..Len(ack_msgs) |->
                      [ack_msgs[k] EXCEPT !.proof_acked = MockProof,
                                          !.proof_height = DefaultHeight]]
    /\ timeout_msgs' = [k \in 1..Len(timeout_msgs) |->
                          [timeout_msgs[k] EXCEPT !.proof_unreceived = MockProof]]
    /\ pc' = "returned"
    /\ result' = "unit"
    /\ UNCHANGED <<proof_block_number, fut, requests>>
    /\ UNCHANGED <<build_vars, static_vars>>

inject_mock_proofs ==
    /\ pc = "start" /\ injector = "mock"
    /\ recv_msgs' = [k \in 1..Len(recv_msgs) |->
                       [recv_msgs[k] EXCEPT !.proof_commitment = MockProof,
                                            !.proof_height = DefaultHeight]]
    /\ ack_msgs' = [k \in 1..Len(ack_msgs) |->
                      [ack_msgs[k] EXCEPT !.proof_acked = MockProof,
                                          !.proof_height = DefaultHeight]]
    /\ timeout_msgs' = [k \in 1..Len(timeout_msgs) |->
                          [timeout_msgs[k] EXCEPT !.proof_unreceived = MockProof,
                                                  !.proof_height = DefaultHeight]]
    /\ pc' = "returned"
    /\ result' = "unit"
    /\ UNCHANGED <<proof_block_number, fut, requests>>
    /\ UNCHANGED <<build_vars, static_vars>>

\* ---- the batches an injector call is given: skeletons made by the builders

SendEvent(seq, src, dst, ts) ==
    [event |-> [type |-> "SendPacket",
                packet |-> [sequence |-> seq, sourceClient |-> src, destClient |-> dst,
                            timeoutTimestamp |-> ts, payloads |-> <<7>>]],
     height |-> 5]

AckEvent(seq, src, dst, ts) ==
    [event |-> [type |-> "WriteAcknowledgement",
                packet |-> [sequence |-> seq, sourceClient |-> src, destClient |-> dst,
                            timeoutTimestamp |-> ts, payloads |-> <<7>>],
                acks |-> << <<1>> >>],
     height |-> 5]

ProvisionalHeight == [revision_number |-> 1, revision_height |-> 10]

\* nR packets to receive followed by nA acknowledgements, seen on the source chain
SrcEvents(nR, nA) ==
    [k \in 1..nR |-> SendEvent(k, "client-0", "client-1", 150)]
    \o [k \in 1..nA |-> AckEvent(k, "client-1", "client-0", 150)]

\* nT timed-out packets, seen on the target chain
TargetEvents(nT) ==
    [k \in 1..nT |-> SendEvent(k, "client-1", "client-0", 100)]

BuiltBatches(nR, nA, nT) ==
    LET ra == src_events_to_recv_and_ack_msgs(
                  SrcEvents(nR, nA), "client-1", ProvisionalHeight, "cosmos1signer", 100)
    IN  [recv |-> ra.recv_msgs,
         ack |-> ra.ack_msgs,
         timeout |-> target_events_to_timeout_msgs(
                         TargetEvents(nT), "client-1", ProvisionalHeight, "cosmos1signer", 100)]

AllPaths(batches) ==
    UNION {{PathOf(g, batches[g][k]) : k \in 1..Len(batches[g])} : g \in GroupSet}

Init ==
    /\ events = <<>>
    /\ target_client_id = "client-1"
    /\ target_height = ProvisionalHeight
    /\ signer_address = "cosmos1signer"
    /\ now = 100
    /\ built = {}
    /\ timeout_out = <<>>
    /\ recv_ack_out = [recv_msgs |-> <<>>, ack_msgs |-> <<>>]
    /\ \E nR \in 0..MaxBatch, nA \in 0..MaxBatch, nT \in 0..MaxBatch :
          pre_msgs = BuiltBatches(nR, nA, nT)
    /\ recv_msgs = pre_msgs.recv
    /\ ack_msgs = pre_msgs.ack
    /\ timeout_msgs = pre_msgs.timeout
    /\ injector \in Injectors
    /\ inj_height \in IF injector = "tendermint" THEN Heights ELSE {DefaultHeight}
    /\ proof_slot \in IF injector = "ethereum" THEN Slots ELSE {0}
    /\ proof_block_number = NoBlock
    /\ chain \in IF injector = "mock" THEN {{}} ELSE SUBSET AllPaths(pre_msgs)
    /\ pc = "start"
    /\ fut = [g \in GroupSet |-> Unpolled(Len(pre_msgs[g]))]
    /\ requests = <<>>
    /\ result = "none"
    /\ beacon_chain \in IF injector = "ethereum" THEN BlockNumbers ELSE {0}
    /\ run = 1
    /\ first_slots = [g \in GroupSet |-> <<>>]

Next ==
    \/ CallTendermint
    \/ \E g \in GroupSet, i \in 1..MaxBatch : TmFetchReturns(g, i)
    \/ CallEthereum
    \/ BeaconReturns
    \/ \E g \in GroupSet, i \in 1..MaxBatch : EthFetchReturns(g, i)
    \/ inject_mock_proofs

Spec == Init /\ [][Next]_vars

\* the injectors when every request sent is answered and the caller keeps polling
\* the call: a step that can be taken is taken
SpecFair == Spec /\ WF_vars(Next)

\* ------------------------------------------------- claims on the builders

\* the position in the output of the message made from event i, when the events
\* of index set S, and only they, each make one message, in input order
Rank(S, i) == Cardinality({j \in S : j <= i})

SendIdx == {i \in 1..Len(events) : events[i].event.type = "SendPacket"}

TimeoutIdx ==
    {i \in SendIdx : /\ now >= events[i].event.packet.timeoutTimestamp
                     /\ events[i].event.packet.sourceClient = target_client_id}

RecvIdx ==
    {i \in SendIdx : /\ events[i].event.packet.timeoutTimestamp > now
                     /\ events[i].event.packet.destClient = target_client_id}

AckIdx ==
    {i \in 1..Len(events) : /\ events[i].event.type = "WriteAcknowledgement"
                            /\ events[i].event.packet.sourceClient = target_client_id}

\* C1: the output of target_events_to_timeout_msgs holds, in input order and
\* without deduplication, exactly one MsgTimeout per SendPacket event with
\* now >= timeoutTimestamp and sourceClient = target client id, and nothing else.
C1_TimeoutMsgsExact ==
    "timeout" \in built =>
        /\ Len(timeout_out) = Cardinality(TimeoutIdx)
        /\ \A i \in TimeoutIdx :
              /\ timeout_out[Rank(TimeoutIdx, i)].type = "MsgTimeout"
              /\ timeout_out[Rank(TimeoutIdx, i)].packet = Some(PacketInto(events[i].event.packet))

\* two equal timed-out events at the boundary now = timeoutTimestamp, both kept
C1_Witness ==
    /\ "timeout" \in built
    /\ Len(events) = 2 /\ events[1] = events[2]
    /\ TimeoutIdx = {1, 2}
    /\ events[1].event.packet.timeoutTimestamp = now
    /\ Len(timeout_out) = 2

\* C2: the recv batch of src_events_to_recv_and_ack_msgs holds, in input order,
\* exactly one MsgRecvPacket per SendPacket event with timeoutTimestamp > now and
\* destClient = target client id; every other SendPacket event is absent.
C2_RecvMsgsExact ==
    "recv_ack" \in built =>
        /\ Len(recv_ack_out.recv_msgs) = Cardinality(RecvIdx)
        /\ \A i \in RecvIdx :
              /\ recv_ack_out.recv_msgs[Rank(RecvIdx, i)].type = "MsgRecvPacket"
              /\ recv_ack_out.recv_msgs[Rank(RecvIdx, i)].packet
                     = Some(PacketInto(events[i].event.packet))

\* a kept SendPacket after a dropped one (wrong destination, not timed out)
C2_Witness ==
    /\ "recv_ack" \in built
    /\ Len(events) = 2 /\ SendIdx = {1, 2} /\ RecvIdx = {2}
    /\ events[1].event.packet.timeoutTimestamp > now
    /\ Len(recv_ack_out.recv_msgs) = 1

\* C3: the ack batch holds, in input order, exactly one MsgAcknowledgement per
\* WriteAcknowledgement event with sourceClient = target client id, whatever its
\* timeout, carrying the event's acknowledgements unchanged and in order.
C3_AckMsgsExact ==
    "recv_ack" \in built =>
        /\ Len(recv_ack_out.ack_msgs) = Cardinality(AckIdx)
        /\ \A i \in AckIdx :
              /\ recv_ack_out.ack_msgs[Rank(AckIdx, i)].type = "MsgAcknowledgement"
              /\ recv_ack_out.ack_msgs[Rank(AckIdx, i)].packet
                     = Some(PacketInto(events[i].event.packet))
              /\ recv_ack_out.ack_msgs[Rank(AckIdx, i)].acknowledgement.app_acknowledgements
                     = events[i].event.acks

\* two kept acknowledgement events with different payloads, the first one of a
\* packet whose timeout has passed
C3_Witness ==
    /\ "recv_ack" \in built
    /\ AckIdx = {1, 2}
    /\ events[1].event.acks # events[2].event.acks
    /\ Len(events[1].event.acks) = 2
    /\ events[1].event.packet.timeoutTimestamp <= now
    /\ Len(recv_ack_out.ack_msgs) = 2

\* C4: with the same events, target client id and now given to both builders, no
\* SendPacket event has both a MsgTimeout and a MsgRecvPacket made of its packet,
\* and the two outputs hold together at most one message per SendPacket event.
C4_TimeoutRecvExclusive ==
    built = {"timeout", "recv_ack"} =>
        /\ \A i \in SendIdx :
              ~ ( /\ \E k \in 1..Len(timeout_out) :
                        timeout_out[k].packet = Some(PacketInto(events[i].event.packet))
                  /\ \E k \in 1..Len(recv_ack_out.recv_msgs) :
                        recv_ack_out.recv_msgs[k].packet = Some(PacketInto(events[i].event.packet)) )
        /\ Len(timeout_out) + Len(recv_ack_out.recv_msgs) <= Cardinality(SendIdx)

\* a packet whose source and destination are both the target client, at the
\* boundary now = timeoutTimestamp: it is timed out and not received
C4_Witness ==
    /\ built = {"timeout", "recv_ack"}
    /\ \E i \in SendIdx :
          /\ events[i].event.packet.sourceClient = target_client_id
          /\ events[i].event.packet.destClient = target_client_id
          /\ events[i].event.packet.timeoutTimestamp = now
    /\ Len(timeout_out) >= 1
    /\ Len(recv_ack_out.recv_msgs) = 0

\* ------------------------------------------------ claims on the injectors

\* the proof bytes of a message, whatever its type
ProofBytes(m) ==
    IF m.type = "MsgRecvPacket" THEN m.proof_commitment
    ELSE IF m.type = "MsgAcknowledgement" THEN m.proof_acked
    ELSE m.proof_unreceived

Slot(g, i) == <<ProofBytes(Batch(g)[i]), Batch(g)[i].proof_height>>

PreSlot(g, i) == <<ProofBytes(pre_msgs[g][i]), pre_msgs[g][i].proof_height>>

Indexes == {<<g, i>> \in GroupSet \X (1..MaxBatch + 1) : i <= Len(pre_msgs[g])}

\* what the snapshot holds under the path of message i of group g, as handed in
OwnPath(g, i) == PathOf(g, pre_msgs[g][i])

\* the proof bytes and height a successful fetch of the injector called leaves in
\* message i of group g
InjectedSlot(g, i) ==
    IF injector = "tendermint"
    THEN << <<"protobuf", [key_path |-> <<"ibc", OwnPath(g, i)>>,
                           at |-> inj_height.revision_height,
                           exist |-> OwnPath(g, i) \in chain]>>,
            inj_height >>
    ELSE IF injector = "ethereum"
    THEN LET key == [keccak256 |-> <<OwnPath(g, i), ibc_contract_slot>>]
         IN  << <<"json", [key |-> key,
                           value |-> IF OwnPath(g, i) \in chain THEN 1 ELSE 0,
                           proof |-> <<"node", key,
                                       <<"0", "x">> \o LowerHex(proof_block_number.number)>>]>>,
                [revision_number |-> 0, revision_height |-> proof_slot] >>
    ELSE <<MockProof, DefaultHeight>>

IsError == result \in {ERR_MEMBERSHIP, ERR_NON_MEMBERSHIP, ERR_UPSTREAM}

\* C5: in both injectors, a recv or ack message whose returned value is empty (zero)
\* makes the call fail with the "Membership value is empty" error (ProofEmpty), a
\* timeout message whose returned value is not empty (not zero) makes it fail with
\* the "Non-Membership value is empty" error (ProofNonEmpty), and that message is
\* given no proof.
C5_MembershipPolicy ==
    \A x \in Indexes :
        LET g == x[1]
            i == x[2]
            r == fut[g][i].resp
            has == IF injector = "tendermint" THEN r.kind = "ok"
                   ELSE r.kind = "ok" /\ r.storage_proof # <<>>
            empty == IF injector = "tendermint" THEN r.value = <<>>
                     ELSE r.storage_proof[1].value = 0
        IN  has =>
              /\ (g \in {"recv", "ack"} /\ empty) =>
                    result = ERR_MEMBERSHIP /\ Slot(g, i) = PreSlot(g, i)
              /\ (g = "timeout" /\ ~empty) =>
                    result = ERR_NON_MEMBERSHIP /\ Slot(g, i) = PreSlot(g, i)

\* the Ethereum call has populated a recv message and then met a timeout message
\* whose receipt slot is not zero
C5_Witness ==
    /\ injector = "ethereum"
    /\ result = ERR_NON_MEMBERSHIP
    /\ \E i \in 1..Len(fut.timeout) :
          /\ fut.timeout[i].st = "failed"
          /\ fut.timeout[i].resp.kind = "ok"
          /\ fut.timeout[i].resp.storage_proof[1].value # 0
    /\ Len(fut.recv) > 0

\* C6: when inject_tendermint_proofs returns Ok, every message of the three
\* batches holds the encoded proof returned for its own path and targetHeight as
\* proof height, whatever height it carried and in whatever order the fetches ended.
C6_TendermintOkPairing ==
    (injector = "tendermint" /\ result = "Ok") =>
        \A x \in Indexes : Slot(x[1], x[2]) = InjectedSlot(x[1], x[2])

\* an Ok call over two recv messages, with ack and timeout messages, at a height
\* that is not the provisional one; the two recv messages hold different proofs
C6_Witness ==
    /\ injector = "tendermint" /\ result = "Ok"
    /\ Len(recv_msgs) = 2 /\ Len(ack_msgs) >= 1 /\ Len(timeout_msgs) >= 1
    /\ inj_height # ProvisionalHeight
    /\ ProofBytes(recv_msgs[1]) # ProofBytes(recv_msgs[2])

\* C7: one inject_ethereum_proofs call asks for the beacon block once, sends every
\* storage-proof request at the block number that answer gave, and on Ok leaves
\* every message with proof height {0, proofSlot}: the slot, not the block.
C7_EthereumOneBlock ==
    injector = "ethereum" =>
        /\ Cardinality({k \in 1..Len(requests) : requests[k].req.client = "beacon"})
               = IF pc = "start" THEN 0 ELSE 1
        /\ \A k \in 1..Len(requests) :
              requests[k].req.client = "ethereum" =>
                  /\ proof_block_number.resolved
                  /\ requests[k].req.block
                         = <<"0", "x">> \o LowerHex(proof_block_number.number)
        /\ result = "Ok" =>
              \A x \in Indexes :
                  Batch(x[1])[x[2]].proof_height
                      = [revision_number |-> 0, revision_height |-> proof_slot]

\* slot 1000 resolved to block 500: the requests of the three batches went out at
\* 0x1f4 and the call returned Ok
C7_Witness ==
    /\ injector = "ethereum" /\ result = "Ok"
    /\ proof_slot = 1000 /\ proof_block_number.number = 500
    /\ Len(recv_msgs) >= 1 /\ Len(ack_msgs) >= 1 /\ Len(timeout_msgs) >= 1
    /\ Cardinality({k \in 1..Len(requests) :
                      /\ requests[k].req.client = "ethereum"
                      /\ requests[k].req.block = <<"0", "x", "1", "f", "4">>})
           = Len(recv_msgs) + Len(ack_msgs) + Len(timeout_msgs)

\* C8 as claimed: when inject_tendermint_proofs or inject_ethereum_proofs returns
\* an error, every message still has the proof bytes and height it had before.
C8_ErrorLeavesAllUntouched ==
    IsError => \A x \in Indexes : Slot(x[1], x[2]) = PreSlot(x[1], x[2])

\* C8 as amended: when inject_tendermint_proofs or inject_ethereum_proofs returns
\* an error, each message whose own fetch had succeeded before keeps the proof
\* bytes and the height the call wrote, and every other message (the failing one,
\* those whose fetch was dropped or never issued) has the proof bytes and height it
\* had before the call.
C8_ErrorLeavesDoneOnly ==
    IsError =>
        \A x \in Indexes :
            IF fut[x[1]][x[2]].st = "done"
            THEN Slot(x[1], x[2]) = InjectedSlot(x[1], x[2])
            ELSE Slot(x[1], x[2]) = PreSlot(x[1], x[2])

\* a Tendermint call failed on an ack message after it populated a recv message
C8_Witness ==
    /\ injector = "tendermint" /\ result = ERR_MEMBERSHIP
    /\ \E i \in 1..Len(fut.ack) : fut.ack[i].st = "failed"
    /\ Len(recv_msgs) >= 1
    /\ Slot("recv", 1) # PreSlot("recv", 1)
    /\ Len(timeout_msgs) >= 1

\* C9: in every state between two awaits of an injector call, and after it, each
\* message holds either the proof bytes and height it was handed in with, or the
\* proof bytes and height the injector writes: never one of each.
C9_ProofAndHeightTogether ==
    \A x \in Indexes :
        \/ Slot(x[1], x[2]) = PreSlot(x[1], x[2])
        \/ Slot(x[1], x[2]) = InjectedSlot(x[1], x[2])

\* a call still awaiting a fetch, one message written and its neighbour not, the
\* height written being another one than the provisional height
C9_Witness ==
    /\ pc = "recv" /\ Len(recv_msgs) = 2
    /\ Slot("recv", 2) = InjectedSlot("recv", 2)
    /\ Slot("recv", 1) = PreSlot("recv", 1)
    /\ InjectedSlot("recv", 1)[2] # PreSlot("recv", 1)[2]
    /\ fut.recv[1].st = "pending"

\* C10 as claimed: the fetches of all messages of all three batches are issued
\* together: while any fetch is in flight, no message is without its fetch issued.
C10_AllGroupsIssuedTogether ==
    (\E x \in Indexes : fut[x[1]][x[2]].st = "pending") =>
        \A x \in Indexes : fut[x[1]][x[2]].st # "unpolled"

\* C10 as amended: the fetches of one batch group are issued together and awaited
\* jointly, and the groups follow one another: an ack fetch is issued only once
\* every recv fetch has succeeded, a timeout fetch only once every recv and ack
\* fetch has succeeded.
C10_GroupsInSequence ==
    /\ \A g \in GroupSet :
          (\E i \in 1..Len(fut[g]) : fut[g][i].st # "unpolled") =>
              \A i \in 1..Len(fut[g]) : fut[g][i].st # "unpolled"
    /\ (\E i \in 1..Len(fut.ack) : fut.ack[i].st # "unpolled") =>
          \A k \in 1..Len(fut.recv) : fut.recv[k].st = "done"
    /\ (\E i \in 1..Len(fut.timeout) : fut.timeout[i].st # "unpolled") =>
          /\ \A k \in 1..Len(fut.recv) : fut.recv[k].st = "done"
          /\ \A k \in 1..Len(fut.ack) : fut.ack[k].st = "done"

\* two recv fetches in flight at once while the ack and timeout fetches of the same
\* call are not issued yet
C10_Witness ==
    /\ Len(fut.recv) = 2 /\ Len(fut.ack) >= 1 /\ Len(fut.timeout) >= 1
    /\ fut.recv[1].st = "pending" /\ fut.recv[2].st = "pending"
    /\ fut.ack[1].st = "unpolled" /\ fut.timeout[1].st = "unpolled"

\* C11: when the execution client answers a proof request with no storage-proof
\* entry, inject_ethereum_proofs returns an error value of a kind of its own (not
\* the empty-value error); it does not abort and does not go on.
C11_NoEntryIsReturnedError ==
    \A x \in Indexes :
        LET r == fut[x[1]][x[2]].resp
        IN  (injector = "ethereum" /\ r.kind = "ok" /\ r.storage_proof = <<>>) =>
                /\ pc = "returned"
                /\ result \notin {PANIC, ERR_MEMBERSHIP, ERR_NON_MEMBERSHIP, "Ok"}

\* the fields of message m that differ from those of message p
Changed(m, p) == {f \in DOMAIN m : m[f] # p[f]}

\* the proof field of each batch group
ProofField(g) ==
    IF g = "recv" THEN "proof_commitment"
    ELSE IF g = "ack" THEN "proof_acked" ELSE "proof_unreceived"

\* C12: inject_mock_proofs cannot fail and leaves every message of the three
\* batches, of any sizes, with the same sentinel proof bytes and the zero height,
\* in the proof field of its type and proof_height, the fields a successful
\* Tendermint or Ethereum injection fills, and no other field.
C12_MockFillsAll ==
    /\ injector = "mock" => /\ result \in {"none", "unit"}
                            /\ pc \in {"start", "returned"}
    /\ (injector = "mock" /\ pc = "returned") =>
          \A x \in Indexes :
              /\ Batch(x[1])[x[2]][ProofField(x[1])] = <<"m", "o", "c", "k">>
              /\ Batch(x[1])[x[2]].proof_height = [revision_number |-> 0, revision_height |-> 0]
              /\ Changed(Batch(x[1])[x[2]], pre_msgs[x[1]][x[2]])
                     = {ProofField(x[1]), "proof_height"}
    /\ (injector \in {"tendermint", "ethereum"} /\ result = "Ok") =>
          \A x \in Indexes :
              Changed(Batch(x[1])[x[2]], pre_msgs[x[1]][x[2]])
                  \subseteq {ProofField(x[1]), "proof_height"}

\* the mock injector has returned on two recv, one ack and two timeout messages
C12_Witness ==
    /\ injector = "mock" /\ pc = "returned" /\ result = "unit"
    /\ Len(recv_msgs) = 2 /\ Len(ack_msgs) = 1 /\ Len(timeout_msgs) = 2
    /\ \A x \in Indexes : Slot(x[1], x[2]) = <<MockProof, DefaultHeight>>

\* C13: the builders return normally for every input: no element of an output
\* comes from an unreachable!() arm, every message of the timeout output is a
\* MsgTimeout, of the recv batch a MsgRecvPacket, of the ack batch a
\* MsgAcknowledgement, and the two batches hold every kept event.
C13_BuildersNeverFail ==
    /\ "timeout" \in built =>
          \A k \in 1..Len(timeout_out) : timeout_out[k].type = "MsgTimeout"
    /\ "recv_ack" \in built =>
          /\ \A k \in 1..Len(recv_ack_out.recv_msgs) :
                /\ recv_ack_out.recv_msgs[k] # Unreachable
                /\ recv_ack_out.recv_msgs[k].type = "MsgRecvPacket"
          /\ \A k \in 1..Len(recv_ack_out.ack_msgs) :
                /\ recv_ack_out.ack_msgs[k] # Unreachable
                /\ recv_ack_out.ack_msgs[k].type = "MsgAcknowledgement"
          /\ Len(recv_ack_out.recv_msgs) + Len(recv_ack_out.ack_msgs)
                 = Cardinality(RecvIdx) + Cardinality(AckIdx)

\* both builders have returned on a list that holds a kept acknowledgement before
\* a kept SendPacket: both partitions are mapped
C13_Witness ==
    /\ built = {"timeout", "recv_ack"}
    /\ Len(events) = 2 /\ AckIdx = {1} /\ RecvIdx = {2}
    /\ Len(recv_ack_out.recv_msgs) = 1 /\ Len(recv_ack_out.ack_msgs) = 1

\* ------------------------------------------ a second call on rebuilt batches

\* the injector that returned Ok is called again, with the same arguments, on
\* batches built anew from the same events, against the same snapshot
InjectAgain ==
    /\ run = 1 /\ pc = "returned" /\ result = "Ok"
    /\ injector \in {"tendermint", "ethereum"}
    /\ run' = 2
    /\ first_slots' = [g \in GroupSet |-> [i \in 1..Len(Batch(g)) |-> Slot(g, i)]]
    /\ LET rebuilt == BuiltBatches(Len(recv_msgs), Len(ack_msgs), Len(timeout_msgs))
       IN  /\ recv_msgs' = rebuilt.recv
           /\ ack_msgs' = rebuilt.ack
           /\ timeout_msgs' = rebuilt.timeout
           /\ pre_msgs' = rebuilt
    /\ pc' = "start"
    /\ fut' = [g \in GroupSet |-> Unpolled(Len(Batch(g)))]
    /\ requests' = <<>>
    /\ result' = "none"
    /\ proof_block_number' = NoBlock
    /\ UNCHANGED <<build_vars, injector, inj_height, proof_slot, chain, beacon_chain>>

NextTwice ==
    \/ CallTendermint
    \/ \E g \in GroupSet, i \in 1..MaxBatch : TmFetchReturns(g, i)
    \/ CallEthereum
    \/ BeaconReturns
    \/ \E g \in GroupSet, i \in 1..MaxBatch : EthFetchReturns(g, i)
    \/ inject_mock_proofs
    \/ InjectAgain

SpecTwice == Init /\ [][NextTwice]_vars

\* C14: a second run of the same injector on rebuilt identical batches, against
\* the same snapshot and height, leaves in every message the proof bytes and the
\* proof height the first run left there, whatever the completion orders were.
C14_SecondRunSameProofs ==
    (run = 2 /\ result = "Ok") =>
        \A x \in Indexes : Slot(x[1], x[2]) = first_slots[x[1]][x[2]]

\* the second Ethereum run has returned Ok on two messages per batch
C14_Witness ==
    /\ run = 2 /\ result = "Ok" /\ injector = "ethereum"
    /\ Len(recv_msgs) = 2 /\ Len(ack_msgs) = 2 /\ Len(timeout_msgs) = 2
    /\ Slot("recv", 1) # Slot("recv", 2)
    /\ Slot("recv", 1) # PreSlot("recv", 1)

\* a message as the builders leave it: the packet of one of the events is present,
\* the proof bytes are empty, the proof height is the given target height and the
\* signer is the given signer
Skeleton(m) ==
    /\ m.packet # None
    /\ \E i \in 1..Len(events) : m.packet = Some(PacketInto(events[i].event.packet))
    /\ ProofBytes(m) = <<>>
    /\ m.proof_height = target_height
    /\ m.signer = signer_address

\* C15: every message produced by either builder (MsgTimeout, MsgRecvPacket,
\* MsgAcknowledgement) carries the packet of an event, present and never absent,
\* empty proof bytes, the given target height as provisional proof height and the
\* given signer.
C15_BuilderSkeletons ==
    /\ "timeout" \in built =>
          \A k \in 1..Len(timeout_out) : Skeleton(timeout_out[k])
    /\ "recv_ack" \in built =>
          /\ \A k \in 1..Len(recv_ack_out.recv_msgs) : Skeleton(recv_ack_out.recv_msgs[k])
          /\ \A k \in 1..Len(recv_ack_out.ack_msgs) : Skeleton(recv_ack_out.ack_msgs[k])

\* both builders have returned, with a timeout message and a recv message built
C15_Witness ==
    /\ built = {"timeout", "recv_ack"}
    /\ Len(timeout_out) >= 1
    /\ Len(recv_ack_out.recv_msgs) >= 1
    /\ Skeleton(timeout_out[1])
    /\ Skeleton(recv_ack_out.recv_msgs[1])

\* the consequence for the injectors, run on builder output: no message of the
\* three batches is without its packet, so no poll aborts in packet.unwrap()
InjectorMeetsPacket ==
    /\ \A g \in GroupSet : FirstNone(Batch(g)) = Len(Batch(g)) + 1
    /\ result = PANIC =>
          \E x \in Indexes : /\ fut[x[1]][x[2]].resp.kind = "ok"
                             /\ fut[x[1]][x[2]].resp.storage_proof = <<>>

\* the lifecycle role whose path is proved for the messages of a group
Role(g) ==
    IF g = "recv" THEN "commitment"
    ELSE IF g = "ack" THEN "acknowledgement" ELSE "receipt"

\* the canonical path of message i of group g, as handed in, in the role of g
RolePath(g, i) == PathDeriver(ProtoInto(Unwrap(pre_msgs[g][i].packet)), Role(g))

\* the requests sent by the fetch of message i of group g
RequestsBy(g, i) == {n \in 1..Len(requests) : requests[n].by = <<g, i>>}

\* the proof requests of the log: all but the beacon-block lookup
ProofRequests == {n \in 1..Len(requests) : requests[n].req.client # "beacon"}

\* C16: in both injectors the proof of a recv message is requested for the
\* commitment path of its packet, of an ack message for its acknowledgement path,
\* of a timeout message for its receipt path: the Tendermint injector asks for
\* that path under the fixed "ibc" prefix, the Ethereum injector for the storage
\* slot derived from that same path and the configured base slot; every proof
\* request is the request of one message, and a call that returns Ok has sent one
\* for every message.
C16_PathRolePerKind ==
    /\ \A n \in ProofRequests :
          LET r == requests[n]
              g == r.by[1]
              i == r.by[2]
          IN  /\ <<g, i>> \in Indexes
              /\ injector = "tendermint" =>
                    /\ r.req.client = "tendermint"
                    /\ r.req.segments = <<"ibc", RolePath(g, i)>>
              /\ injector = "ethereum" =>
                    /\ r.req.client = "ethereum"
                    /\ r.req.keys = << <<"hex", evm_ics26_commitment_path(
                                                    RolePath(g, i), ibc_contract_slot)>> >>
    /\ result = "Ok" => \A x \in Indexes : Cardinality(RequestsBy(x[1], x[2])) = 1

\* the Tendermint injector has returned Ok on batches that hold a message of each
\* kind, one request sent for each
C16_Witness ==
    /\ injector = "tendermint" /\ pc = "returned" /\ result = "Ok"
    /\ \A g \in GroupSet : Len(Batch(g)) >= 1
    /\ \A g \in GroupSet : requests[CHOOSE n \in RequestsBy(g, 1) : TRUE].req.segments
                               = <<"ibc", RolePath(g, 1)>>

\* the three batches as they are now
Batches == [recv |-> recv_msgs, ack |-> ack_msgs, timeout |-> timeout_msgs]

\* inject_ethereum_proofs has returned without a block number for proof_slot
BeaconFailed ==
    injector = "ethereum" /\ pc = "returned" /\ ~proof_block_number.resolved

\* C17: when the beacon-block lookup of proof_slot fails, inject_ethereum_proofs
\* returns that error, no fetch was started and no proof request was sent to the
\* execution client, and every message of the three batches is as it was handed in.
C17_BeaconFailureIsClean ==
    BeaconFailed =>
        /\ result = ERR_UPSTREAM
        /\ ProofRequests = {}
        /\ \A n \in 1..Len(requests) : requests[n].req.client # "ethereum"
        /\ \A x \in Indexes : fut[x[1]][x[2]].st = "unpolled"
        /\ Batches = pre_msgs

\* the lookup has failed for a call on batches that hold a message of each kind
C17_Witness ==
    /\ BeaconFailed
    /\ result = ERR_UPSTREAM
    /\ \A g \in GroupSet : Len(Batch(g)) >= 1
    /\ requests = <<[by |-> <<"beacon", 0>>, req |-> BeaconRequest(proof_slot)]>>

\* message i of group g differs from the message handed in at most in its proof
\* field and its proof height
Framed(g, i) ==
    LET m == Batch(g)[i]
        p == pre_msgs[g][i]
    IN  /\ DOMAIN m = DOMAIN p
        /\ m.type = p.type
        /\ m.packet = p.packet
        /\ m.signer = p.signer
        /\ g = "ack" => m.acknowledgement = p.acknowledgement
        /\ Changed(m, p) \subseteq {ProofField(g), "proof_height"}

\* C18: at every point of a call of any of the three injectors, also after a call
\* that failed, each batch has the length it was handed in with and each message,
\* at its own position, the packet, the signer and (ack) the acknowledgement it
\* was handed in with: only proof fields and proof heights are written.
C18_OnlyProofAndHeight ==
    \A g \in GroupSet :
        /\ Len(Batch(g)) = Len(pre_msgs[g])
        /\ \A i \in 1..Len(Batch(g)) : Framed(g, i)

\* the Ethereum injector has failed on a timeout message after it had written the
\* proofs of two ack messages
C18_Witness ==
    /\ injector = "ethereum" /\ pc = "returned" /\ IsError
    /\ Len(ack_msgs) = 2
    /\ \A i \in 1..2 : Slot("ack", i) # PreSlot("ack", i) /\ Framed("ack", i)
    /\ \E i \in 1..Len(timeout_msgs) : fut["timeout"][i].st = "failed"

\* the call has returned a value to its caller: Ok or one of the errors
Returned == pc = "returned" /\ (result = "Ok" \/ IsError)

\* the call has ended: it has returned, or it was aborted by a panic
Ended == pc = "returned"

\* the answer of the fetch of message i of group g passed the membership test
PolicyOk(g, i) ==
    LET r == fut[g][i].resp
    IN  /\ r.kind = "ok"
        /\ IF injector = "tendermint"
           THEN TmCheck(g, r.value) = "ok"
           ELSE r.storage_proof # <<>> /\ EthCheck(g, get_commitment_proof(r).value) = "ok"

\* Ok is returned only if every message was fetched, passed the membership test
\* and was given its proof
OkOnlyIfAll ==
    result = "Ok" =>
        \A x \in Indexes : /\ fut[x[1]][x[2]].st = "done"
                           /\ PolicyOk(x[1], x[2])
                           /\ Slot(x[1], x[2]) = InjectedSlot(x[1], x[2])

\* once the call has ended no message is written
NoWriteAfterEnd == [][Ended => Batches' = Batches]_vars

\* a call of inject_tendermint_proofs or inject_ethereum_proofs ends: it returns
\* or it is aborted
EventuallyEnds == (injector \in {"tendermint", "ethereum"}) => <>Ended

\* C19: when every request sent is answered, every call of
\* inject_tendermint_proofs and inject_ethereum_proofs eventually returns, Ok or an
\* error; it returns Ok only if every message of the three batches was fetched and
\* passed the membership test; and once it has returned no fetch of the call
\* writes to a message.
C19_EventuallyReturns ==
    /\ (injector \in {"tendermint", "ethereum"}) => <>Returned
    /\ []OkOnlyIfAll
    /\ NoWriteAfterEnd

====
